---- MODULE Spec2Model ----
(***************************************************************************)
(* Prompt Guard (skills/prompt-guard/scripts/detect.py): the per-identity  *)
(* rate limiter, the classifier PromptGuard.analyze and its policy.        *)
(*                                                                         *)
(* HiveFence client (skills/prompt-guard/scripts/hivefence.py) and log     *)
(* analyzer (skills/prompt-guard/scripts/analyze_log.py) are modelled too. *)
(*                                                                         *)
(* The specifications share the variables, among them:                     *)
(*   SpecRate  sequential check_rate_limit calls and a clock;              *)
(*   SpecConc  check_rate_limit calls of several threads, interleaved at   *)
(*             the granularity of the statements of the method;            *)
(*   Spec      analyze calls of one caller on one PromptGuard instance.    *)
(***************************************************************************)
EXTENDS Integers, Sequences, FiniteSets, TLC

VARIABLES
    config,       \* self.config after the merge with the defaults
    owner_ids,    \* self.owner_ids
    sensitivity,  \* self.sensitivity
    rate_limits,  \* self.rate_limits: user_id -> list of timestamps
    now,          \* the wall clock, datetime.now().timestamp()
    message,      \* the message the caller passes to analyze
    context,      \* the context the caller passes to analyze
    result,       \* what the last analyze call returned (or raised)
    ret,          \* the last check_rate_limit call: arguments, window before, verdict
    accepted,     \* history: per user_id, the times of the calls reported not-exceeded
    pc,           \* per thread: the statement of check_rate_limit it is at
    local,        \* per thread: the locals of its check_rate_limit frame
    files,        \* the file system: the security log and the HiveFence cache file
    client        \* the HiveFenceClient: _patterns_cache and _cache_loaded

vars == <<config, owner_ids, sensitivity, rate_limits, now, message, context,
          result, ret, accepted, pc, local, files, client>>

----------------------------------------------------------------------------
(* Bounds *)

MaxTime == 3
MaxAccepted == 3
MaxCap == 2
MaxWindow == 2
NumThreads == 2
MaxSignals == 2
MaxLen == 3
MaxLines == 4
MaxEntries == 2

----------------------------------------------------------------------------
(* Identities.  A user_id is a Python str or int; s is its decimal/text   *)
(* rendering, so str() keeps s and makes the kind "str".                   *)

StrId(s) == [kind |-> "str", s |-> s]
IntId(s) == [kind |-> "int", s |-> s]

str(user_id) == [kind |-> "str", s |-> user_id.s]

Unknown == StrId("unknown")

UserIds == {StrId("7"), IntId("7"), StrId("42")}

Callers == UserIds \cup {Unknown}

\* The callers of check_rate_limit in SpecRate and SpecConc: two keys of
\* self.rate_limits (the str "7" and the int 7 are different dict keys).
RateUsers == {StrId("7"), IntId("7")}

None == [none |-> TRUE]

\* Neither the log file nor the cache file exists.
NoFiles == [log |-> None, cache |-> None]

\* No HiveFenceClient has been constructed.

----------------------------------------------------------------------------
(* Configuration *)

DefaultActionsOff ==
    [LOW |-> "log", MEDIUM |-> "warn", HIGH |-> "warn", CRITICAL |-> "block_notify"]

DefaultActions ==
    [LOW |-> "log", MEDIUM |-> "warn", HIGH |-> "block", CRITICAL |-> "block_notify"]

RateLimitConfig(enabled, max_requests, window_seconds) ==
    [enabled |-> enabled, max_requests |-> max_requests, window_seconds |-> window_seconds]

_default_config ==
    [sensitivity |-> "medium",
     owner_ids   |-> {},
     actions     |-> DefaultActions,
     rate_limit  |-> RateLimitConfig(TRUE, 30, 60),
     logging     |-> [enabled |-> TRUE, path |-> "memory/security-log.md"]]

----------------------------------------------------------------------------
(* Rate limiter: PromptGuard.check_rate_limit *)

RateEnabled(cfg) == cfg.rate_limit.enabled

Window(rl, user_id) == IF user_id \in DOMAIN rl THEN rl[user_id] ELSE <<>>

\* Clean old entries: [t for t in self.rate_limits[user_id] if now - t < window]
PrunedNever(w, t_now, window_seconds) ==
    LET keep(t) == TRUE IN SelectSeq(w, keep)

PrunedOff(w, t_now, window_seconds) ==
    LET keep(t) == t_now - t <= window_seconds IN SelectSeq(w, keep)

Pruned(w, t_now, window_seconds) ==
    LET keep(t) == t_now - t < window_seconds IN SelectSeq(w, keep)

\* len(self.rate_limits[user_id]) >= max_requests
AtCapOff(w, max_requests) == Len(w) > max_requests

AtCap(w, max_requests) == Len(w) >= max_requests

\* The verdict of check_rate_limit(user_id) called at t_now.
RateExceeded(cfg, rl, user_id, t_now) ==
    /\ RateEnabled(cfg)
    /\ AtCap(Pruned(Window(rl, user_id), t_now, cfg.rate_limit.window_seconds),
             cfg.rate_limit.max_requests)

\* The list check_rate_limit leaves: pruned, and now appended unless at the cap.
WindowAfterOff(cfg, rl, user_id, t_now) ==
    Append(Pruned(Window(rl, user_id), t_now, cfg.rate_limit.window_seconds), t_now)

WindowAfter(cfg, rl, user_id, t_now) ==
    LET pruned == Pruned(Window(rl, user_id), t_now, cfg.rate_limit.window_seconds)
    IN  IF AtCap(pruned, cfg.rate_limit.max_requests)
        THEN pruned
        ELSE Append(pruned, t_now)

\* self.rate_limits after check_rate_limit(user_id) called at t_now.
RateLimitsAfterOff(cfg, rl, user_id, t_now) ==
    IF ~RateEnabled(cfg)
    THEN rl
    ELSE [u \in {user_id} |-> WindowAfter(cfg, rl, user_id, t_now)]

RateLimitsAfter(cfg, rl, user_id, t_now) ==
    IF ~RateEnabled(cfg)
    THEN rl
    ELSE [u \in DOMAIN rl \cup {user_id} |->
            IF u = user_id THEN WindowAfter(cfg, rl, user_id, t_now) ELSE rl[u]]

AcceptedAfter(acc, user_id, t_now, exceeded) ==
    IF exceeded THEN acc ELSE [acc EXCEPT ![user_id] = Append(@, t_now)]

NoCall == [op |-> "none"]

IdleThreads == [t \in 1..NumThreads |-> "idle"]
NoLocals == [t \in 1..NumThreads |-> None]

\* The clock advances between calls.
Tick ==
    /\ now < MaxTime
    /\ now' = now + 1
    /\ UNCHANGED <<files, client, config, owner_ids, sensitivity, rate_limits, message, context,
                   result, ret, accepted, pc, local>>

CheckRateLimit(user_id) ==
    LET exceeded == RateExceeded(config, rate_limits, user_id, now) IN
    /\ exceeded \/ Len(accepted[user_id]) < MaxAccepted
    /\ rate_limits' = RateLimitsAfter(config, rate_limits, user_id, now)
    /\ ret' = [op |-> "check_rate_limit", user_id |-> user_id, now |-> now,
               before |-> Window(rate_limits, user_id), exceeded |-> exceeded]
    /\ accepted' = AcceptedAfter(accepted, user_id, now, exceeded)
    /\ UNCHANGED <<files, client, config, owner_ids, sensitivity, now, message, context, result,
                   pc, local>>

RateConfigs ==
    {RateLimitConfig(e, n, w) : e \in BOOLEAN, n \in 0..MaxCap, w \in 1..MaxWindow}

InitRate ==
    /\ config \in {[_default_config EXCEPT !.rate_limit = r] : r \in RateConfigs}
    /\ owner_ids = config.owner_ids
    /\ sensitivity = config.sensitivity
    /\ rate_limits = << >>
    /\ now = 0
    /\ message = None
    /\ context = None
    /\ result = None
    /\ ret = NoCall
    /\ accepted = [u \in Callers |-> <<>>]
    /\ pc = IdleThreads
    /\ local = NoLocals
    /\ files = NoFiles
    /\ client = None

NextRate ==
    \/ Tick
    \/ \E user_id \in RateUsers : CheckRateLimit(user_id)

SpecRate == InitRate /\ [][NextRate]_vars

----------------------------------------------------------------------------
(* check_rate_limit called by several threads.  The interpreter can switch *)
(* threads between any two statements; each step below is one statement of *)
(* lines 1013-1032.                                                        *)

Frame(user_id, cfg, t_now) ==
    [user_id      |-> user_id,
     now          |-> t_now,
     window       |-> cfg.rate_limit.window_seconds,
     max_requests |-> cfg.rate_limit.max_requests,
     pruned       |-> <<>>,
     ret          |-> None]

\* lines 1013-1018: the enabled test, now, window, max_requests
Enter(t, user_id) ==
    /\ pc[t] = "idle"
    /\ IF RateEnabled(config)
       THEN /\ local' = [local EXCEPT ![t] = Frame(user_id, config, now)]
            /\ pc' = [pc EXCEPT ![t] = "test"]
       ELSE /\ local' = [local EXCEPT ![t] = [Frame(user_id, config, now) EXCEPT !.ret = FALSE]]
            /\ pc' = [pc EXCEPT ![t] = "done"]
    /\ UNCHANGED <<files, client, config, owner_ids, sensitivity, rate_limits, now, message, context,
                   result, ret, accepted>>

\* line 1020: if user_id not in self.rate_limits
TestWindow(t) ==
    /\ pc[t] = "test"
    /\ pc' = [pc EXCEPT ![t] = IF local[t].user_id \in DOMAIN rate_limits
                               THEN "prune" ELSE "create"]
    /\ UNCHANGED <<files, client, config, owner_ids, sensitivity, rate_limits, now, message, context,
                   result, ret, accepted, local>>

\* line 1021: self.rate_limits[user_id] = []
CreateWindow(t) ==
    /\ pc[t] = "create"
    /\ rate_limits' = [u \in DOMAIN rate_limits \cup {local[t].user_id} |->
                         IF u = local[t].user_id THEN <<>> ELSE rate_limits[u]]
    /\ pc' = [pc EXCEPT ![t] = "prune"]
    /\ UNCHANGED <<files, client, config, owner_ids, sensitivity, now, message, context,
                   result, ret, accepted, local>>

\* lines 1024-1026, right-hand side: the list comprehension builds a new list
ReadAndPrune(t) ==
    /\ pc[t] = "prune"
    /\ local' = [local EXCEPT ![t].pruned =
                    Pruned(rate_limits[local[t].user_id], local[t].now, local[t].window)]
    /\ pc' = [pc EXCEPT ![t] = "store"]
    /\ UNCHANGED <<files, client, config, owner_ids, sensitivity, rate_limits, now, message, context,
                   result, ret, accepted>>

\* line 1024: self.rate_limits[user_id] = <the new list>
WriteBack(t) ==
    /\ pc[t] = "store"
    /\ rate_limits' = [rate_limits EXCEPT ![local[t].user_id] = local[t].pruned]
    /\ pc' = [pc EXCEPT ![t] = "len"]
    /\ UNCHANGED <<files, client, config, owner_ids, sensitivity, now, message, context,
                   result, ret, accepted, local>>

\* lines 1028-1029: if len(self.rate_limits[user_id]) >= max_requests: return True
LengthTest(t) ==
    /\ pc[t] = "len"
    /\ IF AtCap(rate_limits[local[t].user_id], local[t].max_requests)
       THEN /\ local' = [local EXCEPT ![t].ret = TRUE]
            /\ pc' = [pc EXCEPT ![t] = "done"]
       ELSE /\ pc' = [pc EXCEPT ![t] = "append"]
            /\ UNCHANGED local
    /\ UNCHANGED <<files, client, config, owner_ids, sensitivity, rate_limits, now, message, context,
                   result, ret, accepted>>

\* lines 1031-1032: self.rate_limits[user_id].append(now); return False
AppendNow(t) ==
    /\ pc[t] = "append"
    /\ rate_limits' = [rate_limits EXCEPT ![local[t].user_id] = Append(@, local[t].now)]
    /\ local' = [local EXCEPT ![t].ret = FALSE]
    /\ pc' = [pc EXCEPT ![t] = "done"]
    /\ UNCHANGED <<files, client, config, owner_ids, sensitivity, now, message, context,
                   result, ret, accepted>>

InitConc ==
    /\ config \in {[_default_config EXCEPT !.rate_limit = r] : r \in RateConfigs}
    /\ owner_ids = config.owner_ids
    /\ sensitivity = config.sensitivity
    /\ rate_limits = << >>
    /\ now = 0
    /\ message = None
    /\ context = None
    /\ result = None
    /\ ret = NoCall
    /\ accepted = [u \in Callers |-> <<>>]
    /\ pc = IdleThreads
    /\ local = NoLocals
    /\ files = NoFiles
    /\ client = None

NextConc ==
    \/ Tick
    \/ \E t \in 1..NumThreads : \E user_id \in RateUsers : Enter(t, user_id)
    \/ \E t \in 1..NumThreads : TestWindow(t)
    \/ \E t \in 1..NumThreads : CreateWindow(t)
    \/ \E t \in 1..NumThreads : ReadAndPrune(t)
    \/ \E t \in 1..NumThreads : WriteBack(t)
    \/ \E t \in 1..NumThreads : LengthTest(t)
    \/ \E t \in 1..NumThreads : AppendNow(t)

SpecConc == InitConc /\ [][NextConc]_vars

----------------------------------------------------------------------------
(* Severity and Action enums *)

SAFE == 0
LOW == 1
MEDIUM == 2
HIGH == 3
CRITICAL == 4

\* Severity(n).name
SeverityName(sev) ==
    CASE sev = SAFE -> "SAFE"
      [] sev = LOW -> "LOW"
      [] sev = MEDIUM -> "MEDIUM"
      [] sev = HIGH -> "HIGH"
      [] sev = CRITICAL -> "CRITICAL"

\* The values of the Action enum; Action(s) raises ValueError for any other s.
ActionValues == {"allow", "log", "warn", "block", "block_notify"}

----------------------------------------------------------------------------
(* The pattern corpus, as analyze walks it.  A rule-set is a reason tag, a *)
(* severity, how the severity is written (assign: unconditionally; else    *)
(* only when higher) and whether the tag is added to reasons once only.    *)
(* The patterns of a rule-set are numbered from 1 in list order.           *)

RuleSet(tag, prefix, severity, assign, dedupe) ==
    [tag |-> tag, prefix |-> prefix, severity |-> severity, assign |-> assign,
     dedupe |-> dedupe]

Langs == <<"en", "ko", "ja", "zh">>

critical_sets == <<RuleSet("critical_pattern", "", CRITICAL, TRUE, FALSE)>>

secret_sets ==
    [i \in 1..Len(Langs) |->
        RuleSet("secret_request", Langs[i], CRITICAL, TRUE, FALSE)]

new_pattern_sets ==
    <<RuleSet("scenario_jailbreak", "new", HIGH, FALSE, FALSE),
      RuleSet("emotional_manipulation", "new", HIGH, FALSE, FALSE),
      RuleSet("authority_recon", "new", MEDIUM, FALSE, FALSE),
      RuleSet("cognitive_manipulation", "new", MEDIUM, FALSE, FALSE),
      RuleSet("phishing_social_eng", "new", CRITICAL, FALSE, FALSE),
      RuleSet("repetition_attack", "new", HIGH, FALSE, FALSE),
      RuleSet("system_file_access", "new", CRITICAL, FALSE, FALSE),
      RuleSet("malware_description", "new", HIGH, FALSE, FALSE)>>

v25_pattern_sets ==
    <<RuleSet("indirect_injection", "v25", HIGH, FALSE, TRUE),
      RuleSet("context_hijacking", "v25", MEDIUM, FALSE, TRUE),
      RuleSet("multi_turn_manipulation", "v25", MEDIUM, FALSE, TRUE),
      RuleSet("token_smuggling", "v25", HIGH, FALSE, TRUE),
      RuleSet("prompt_extraction", "v25", CRITICAL, FALSE, TRUE),
      RuleSet("safety_bypass", "v25", HIGH, FALSE, TRUE),
      RuleSet("urgency_manipulation", "v25", MEDIUM, FALSE, TRUE),
      RuleSet("system_prompt_mimicry", "v25", CRITICAL, FALSE, TRUE)>>

v252_pattern_sets ==
    <<RuleSet("json_injection_moltbook", "v252", HIGH, FALSE, TRUE),
      RuleSet("guardrail_bypass_extended", "v252", CRITICAL, FALSE, TRUE),
      RuleSet("agent_sovereignty_manipulation", "v252", HIGH, FALSE, TRUE),
      RuleSet("explicit_call_to_action", "v252", CRITICAL, FALSE, TRUE)>>

\* severity_map.get(category, Severity.MEDIUM)
severity_map(category) ==
    CASE category = "instruction_override" -> HIGH
      [] category = "role_manipulation" -> MEDIUM
      [] category = "system_impersonation" -> HIGH
      [] category = "jailbreak" -> HIGH
      [] category = "output_manipulation" -> LOW
      [] category = "data_exfiltration" -> CRITICAL
      [] category = "social_engineering" -> HIGH
      [] OTHER -> MEDIUM

\* The keys of PATTERNS_EN, PATTERNS_KO, PATTERNS_JA, PATTERNS_ZH, in order.
PATTERNS(lang) ==
    IF lang = "en"
    THEN <<"instruction_override", "role_manipulation", "system_impersonation",
           "jailbreak", "output_manipulation", "data_exfiltration">>
    ELSE <<"instruction_override", "role_manipulation", "system_impersonation",
           "jailbreak", "data_exfiltration", "social_engineering">>

LangSets(lang) ==
    [i \in 1..Len(PATTERNS(lang)) |->
        RuleSet(PATTERNS(lang)[i], lang, severity_map(PATTERNS(lang)[i]), FALSE, FALSE)]

all_patterns == LangSets("en") \o LangSets("ko") \o LangSets("ja") \o LangSets("zh")

\* The reason tag a hit of rule-set rs adds.
ReasonTag(rs) ==
    CASE rs.tag = "secret_request" -> <<rs.tag, rs.prefix>>
      [] rs.prefix \in {"en", "ko", "ja", "zh"} -> <<rs.tag, rs.prefix>>
      [] OTHER -> <<rs.tag>>

\* A pattern is named by the tag of its rule-set and its place in the list.
PatternId(rs, k) == <<ReasonTag(rs), k>>

\* How many patterns of each rule-set the scan loops walk.
PatternsPerSet == 5

----------------------------------------------------------------------------
(* Messages.  A message is described by what analyze can observe of it:    *)
(*   chars     the classes of special characters it contains:              *)
(*             "cyrillic_a"   a key of HOMOGLYPHS that is no invisible char *)
(*             "zwsp"         U+200B: key of HOMOGLYPHS, in invisible_chars *)
(*             "word_joiner"  U+2060: in invisible_chars only               *)
(*             "soft_hyphen"  U+00AD: in invisible_chars only               *)
(*   hits      the corpus patterns re.search finds in the text they are    *)
(*             run on (other than the character-class patterns below);     *)
(*   repeated  the line-repetition test of lines 1162-1165 holds;          *)
(*   base64    detect_base64 returns at least one finding;                 *)
(*   word      text_lower contains one of the suspicious_words.            *)

\* Characters are named: "cyrillic_a" is U+0430, "roman_ii" is U+2171,
\* "zwsp" is U+200B, "word_joiner" is U+2060, "soft_hyphen" is U+00AD;
\* "a" and "i" are the ASCII letters.  A text is a sequence of characters.

\* The table HOMOGLYPHS in its order, as <<key, replacement>>: a key with
\* a one-letter replacement (line 833), one with a two-letter replacement
\* (line 888) and one with the empty replacement (line 903) stand for the
\* 70 entries, all of which have a one-character key outside ASCII and an
\* ASCII replacement.
HOMOGLYPHSChained ==
    << <<"cyrillic_a", <<"a">> >>,
       <<"roman_ii", <<"cyrillic_a", "i">> >>,
       <<"zwsp", << >> >> >>

HOMOGLYPHS ==
    << <<"cyrillic_a", <<"a">> >>,
       <<"roman_ii", <<"i", "i">> >>,
       <<"zwsp", << >> >> >>

HomoglyphKeys == {HOMOGLYPHS[k][1] : k \in DOMAIN HOMOGLYPHS}

\* homoglyph in normalized
Occurs(ch, text) == \E i \in 1..Len(text) : text[i] = ch

\* normalized.replace(homoglyph, replacement) for a one-character key
RECURSIVE replace(_, _, _)
replace(text, homoglyph, replacement) ==
    IF text = << >>
    THEN << >>
    ELSE (IF Head(text) = homoglyph THEN replacement ELSE <<Head(text)>>)
         \o replace(Tail(text), homoglyph, replacement)

\* The loop of normalize from entry k of the table on; fired lists the
\* keys whose branch ran.
RECURSIVE NormalizeFrom(_, _)
NormalizeFrom(k, n) ==
    IF k > Len(HOMOGLYPHS)
    THEN n
    ELSE NormalizeFrom(k + 1,
            IF Occurs(HOMOGLYPHS[k][1], n.text)
            THEN [text    |-> replace(n.text, HOMOGLYPHS[k][1], HOMOGLYPHS[k][2]),
                  changed |-> TRUE,
                  fired   |-> Append(n.fired, HOMOGLYPHS[k][1])]
            ELSE n)

\* normalize(text) -> (normalized, has_homoglyphs)
normalize(text) == NormalizeFrom(1, [text |-> text, changed |-> FALSE, fired |-> << >>])

\* invisible_chars of line 1152, those of them the model names
invisible_chars == {"zwsp", "word_joiner", "soft_hyphen"}

CharClasses == {"cyrillic_a", "zwsp", "word_joiner", "soft_hyphen"}

Message(chars, hits, repeated, b64, word) ==
    [chars |-> chars, hits |-> hits, repeated |-> repeated, base64 |-> b64, word |-> word]

token_smuggling == v25_pattern_sets[4]

\* TOKEN_SMUGGLING[0] = [​‌‍⁠﻿], [2] = [­],
\* [4] = [᠎ -‏‪- ], run on the original message.
CharHits(chars) ==
    (IF chars \cap {"zwsp", "word_joiner"} # {} THEN {PatternId(token_smuggling, 1)} ELSE {})
    \cup (IF "soft_hyphen" \in chars THEN {PatternId(token_smuggling, 3)} ELSE {})
    \cup (IF "zwsp" \in chars THEN {PatternId(token_smuggling, 5)} ELSE {})

\* The patterns for which re.search(pattern, text, re.IGNORECASE) succeeds.
Found(msg) == msg.hits \cup CharHits(msg.chars)

\* normalize(text)[1]: some key of HOMOGLYPHS occurs in the text
has_homoglyphs(msg) == msg.chars \cap HomoglyphKeys # {}

\* any(char in message for char in invisible_chars)
has_invisible(msg) == msg.chars \cap invisible_chars # {}

----------------------------------------------------------------------------
(* PromptGuard.analyze, statement by statement.  The accumulator holds     *)
(* the locals max_severity, reasons and patterns_matched.                  *)

Acc(sev, reasons, patterns_matched) ==
    [max_severity |-> sev, reasons |-> reasons, patterns_matched |-> patterns_matched]

InSeq(x, s) == \E i \in 1..Len(s) : s[i] = x

\* if severity.value > max_severity.value: max_severity = severity
Raise(cur, sev) == IF sev > cur THEN sev ELSE cur

\* lines 1059-1061
RateStepOff(a, exceeded) ==
    IF exceeded
    THEN Acc(Raise(a.max_severity, MEDIUM), Append(a.reasons, <<"rate_limit_exceeded">>),
             a.patterns_matched)
    ELSE a

RateStep(a, exceeded) ==
    IF exceeded
    THEN Acc(HIGH, Append(a.reasons, <<"rate_limit_exceeded">>), a.patterns_matched)
    ELSE a

\* lines 1064-1068
HomoglyphStepOff(a, msg) ==
    IF has_homoglyphs(msg)
    THEN Acc(Raise(a.max_severity, MEDIUM), a.reasons, a.patterns_matched)
    ELSE a

HomoglyphStep(a, msg) ==
    IF has_homoglyphs(msg)
    THEN Acc(Raise(a.max_severity, MEDIUM), Append(a.reasons, <<"homoglyph_substitution">>),
             a.patterns_matched)
    ELSE a

\* The body of the pattern loops (lines 1074-1077, 1082-1087, 1103-1107,
\* 1124-1129, 1144-1149, 1192-1201) for a pattern that matched.
Hit(a, rs, k) ==
    Acc(IF rs.assign THEN rs.severity ELSE Raise(a.max_severity, rs.severity),
        IF rs.dedupe /\ InSeq(ReasonTag(rs), a.reasons)
        THEN a.reasons
        ELSE Append(a.reasons, ReasonTag(rs)),
        Append(a.patterns_matched, PatternId(rs, k)))

\* The (rule-set, pattern) pairs of a table in the order the nested loops
\* visit them: for each rule-set, its patterns in list order.
LoopOrder(sets) ==
    [n \in 1..(Len(sets) * PatternsPerSet) |->
        LET rs == sets[((n - 1) \div PatternsPerSet) + 1]
            k  == ((n - 1) % PatternsPerSet) + 1
        IN  [rs |-> rs, k |-> k, id |-> PatternId(rs, k)]]

critical_loop == LoopOrder(critical_sets)
secret_loop == LoopOrder(secret_sets)
new_loop == LoopOrder(new_pattern_sets)
v25_loop == LoopOrder(v25_pattern_sets)
v252_loop == LoopOrder(v252_pattern_sets)
lang_loop == LoopOrder(all_patterns)

\* Those of them whose re.search succeeds.
Matches(loop, msg) ==
    LET hits == Found(msg)
        found(p) == p.id \in hits
    IN  SelectSeq(loop, found)

RECURSIVE ApplyHits(_, _, _)
ApplyHits(a, found, i) ==
    IF i > Len(found)
    THEN a
    ELSE ApplyHits(Hit(a, found[i].rs, found[i].k), found, i + 1)

\* for patterns, category, severity in sets: for pattern in patterns: ...
ScanSets(a, loop, msg) == ApplyHits(a, Matches(loop, msg), 1)

\* lines 1154-1159
InvisibleStepOff(a, msg) ==
    IF has_invisible(msg)
    THEN Acc(HIGH, a.reasons, a.patterns_matched)
    ELSE a

InvisibleStep(a, msg) ==
    IF has_invisible(msg)
    THEN Acc(Raise(a.max_severity, HIGH),
             IF ~InSeq(<<"token_smuggling">>, a.reasons)
             THEN Append(a.reasons, <<"invisible_characters">>)
             ELSE a.reasons,
             a.patterns_matched)
    ELSE a

\* lines 1162-1168
RepetitionStepOff(a, msg) ==
    IF msg.repeated
    THEN Acc(a.max_severity, Append(a.reasons, <<"repetition_detected">>),
             a.patterns_matched)
    ELSE a

RepetitionStep(a, msg) ==
    IF msg.repeated
    THEN Acc(Raise(a.max_severity, HIGH), Append(a.reasons, <<"repetition_detected">>),
             a.patterns_matched)
    ELSE a

\* lines 1204-1208
Base64StepOff(a, msg) ==
    IF msg.base64
    THEN Acc(MEDIUM, Append(a.reasons, <<"base64_suspicious">>), a.patterns_matched)
    ELSE a

Base64Step(a, msg) ==
    IF msg.base64
    THEN Acc(Raise(a.max_severity, MEDIUM), Append(a.reasons, <<"base64_suspicious">>),
             a.patterns_matched)
    ELSE a

\* lines 1056-1208: the locals when every check has run
Checks(msg, exceeded) ==
    LET a1 == RateStep(Acc(SAFE, <<>>, <<>>), exceeded)
        a2 == HomoglyphStep(a1, msg)
        a3 == ScanSets(a2, critical_loop, msg)
        a4 == ScanSets(a3, secret_loop, msg)
        a5 == ScanSets(a4, new_loop, msg)
        a6 == ScanSets(a5, v25_loop, msg)
        a7 == ScanSets(a6, v252_loop, msg)
        a8 == InvisibleStep(a7, msg)
        a9 == RepetitionStep(a8, msg)
        a10 == ScanSets(a9, lang_loop, msg)
    IN  Base64Step(a10, msg)

\* lines 1211-1225
SensitivityStepOff(a, sens, msg) ==
    IF sens = "low" /\ a.max_severity = LOW
    THEN Acc(SAFE, a.reasons, a.patterns_matched)
    ELSE IF sens = "paranoid" /\ a.max_severity = SAFE
         THEN Acc(LOW, Append(a.reasons, <<"paranoid_flag">>), a.patterns_matched)
         ELSE a

SensitivityStepStrict(a, sens, msg) ==
    IF sens = "low" /\ a.max_severity = LOW
    THEN Acc(SAFE, a.reasons, a.patterns_matched)
    ELSE IF sens = "paranoid" /\ a.max_severity = SAFE /\ msg.word
         THEN Acc(LOW, Append(a.reasons, <<"paranoid_flag">>), a.patterns_matched)
         ELSE IF sens = "high" /\ a.max_severity = LOW
              THEN Acc(MEDIUM, a.reasons, a.patterns_matched)
              ELSE a

SensitivityStep(a, sens, msg) ==
    IF sens = "low" /\ a.max_severity = LOW
    THEN Acc(SAFE, a.reasons, a.patterns_matched)
    ELSE IF sens = "paranoid" /\ a.max_severity = SAFE /\ msg.word
         THEN Acc(LOW, Append(a.reasons, <<"paranoid_flag">>), a.patterns_matched)
         ELSE a

\* context.get(key, default)
CtxGet(ctx, key, default) == IF key \in DOMAIN ctx THEN ctx[key] ELSE default

\* line 1051: str(user_id) in self.owner_ids
IsOwnerOff(user_id, owners) == user_id \in owners

IsOwner(user_id, owners) == str(user_id) \in owners

\* action_map.get(max_severity.name, "block")
MapGetOff(action_map, name) == "block"

MapGet(action_map, name) == IF name \in DOMAIN action_map THEN action_map[name] ELSE "block"

\* lines 1228-1236.  The value is an action, or "ValueError" when Action()
\* is given a string that is no Action value.
BaseActionOff(sev, is_owner, action_map) ==
    IF sev = SAFE
    THEN "allow"
    ELSE IF is_owner /\ sev <= CRITICAL
         THEN "log"
         ELSE LET action_str == MapGet(action_map, SeverityName(sev))
              IN  IF action_str \in ActionValues THEN action_str ELSE "ValueError"

BaseAction(sev, is_owner, action_map) ==
    IF sev = SAFE
    THEN "allow"
    ELSE IF is_owner /\ sev < CRITICAL
         THEN "log"
         ELSE LET action_str == MapGet(action_map, SeverityName(sev))
              IN  IF action_str \in ActionValues THEN action_str ELSE "ValueError"

\* line 1239
GroupOverrideOff(sev, is_owner, is_group) == is_group /\ ~is_owner /\ sev >= HIGH

GroupOverride(sev, is_owner, is_group) == is_group /\ ~is_owner /\ sev >= MEDIUM

\* lines 1244-1250
Recommendations(sev, reasons, msg) ==
    (IF sev >= HIGH THEN <<"Consider reviewing this user's recent activity">> ELSE <<>>)
    \o (IF InSeq(<<"rate_limit_exceeded">>, reasons)
        THEN <<"User may be attempting automated attacks">> ELSE <<>>)
    \o (IF has_homoglyphs(msg) THEN <<"Message contains disguised characters">> ELSE <<>>)

\* lines 1253-1255: the md5 input f"{user_id}:{max_severity.name}:{sorted(reasons)}".
\* A sorted list is given by how often each tag occurs in it.
Fingerprint(user_id, sev, reasons) ==
    [user_id  |-> user_id.s,
     severity |-> SeverityName(sev),
     reasons  |-> [r \in {reasons[i] : i \in 1..Len(reasons)} |->
                     Cardinality({i \in 1..Len(reasons) : reasons[i] = r})]]

\* PromptGuard.analyze(message, context), given the verdict of its
\* check_rate_limit call.  computed is max_severity before line 1210.
Analyze(msg, ctx, exceeded, cfg, owners, sens) ==
    LET user_id  == CtxGet(ctx, "user_id", Unknown)
        is_group == CtxGet(ctx, "is_group", FALSE)
        is_owner == IsOwner(user_id, owners)
        checked  == Checks(msg, exceeded)
        adjusted == SensitivityStep(checked, sens, msg)
        sev      == adjusted.max_severity
        base     == BaseAction(sev, is_owner, cfg.actions)
        override == GroupOverride(sev, is_owner, is_group)
        reasons  == IF override THEN Append(adjusted.reasons, <<"group_non_owner">>)
                    ELSE adjusted.reasons
    IN  IF base = "ValueError"
        THEN [raised |-> TRUE, error |-> "ValueError"]
        ELSE [raised           |-> FALSE,
              severity         |-> sev,
              action           |-> IF override THEN "block" ELSE base,
              reasons          |-> reasons,
              patterns_matched |-> adjusted.patterns_matched,
              normalized_text  |-> IF has_homoglyphs(msg) THEN [changed |-> TRUE] ELSE None,
              base64_findings  |-> IF msg.base64 THEN <<"finding">> ELSE <<>>,
              recommendations  |-> Recommendations(sev, reasons, msg),
              fingerprint      |-> Fingerprint(user_id, sev, reasons),
              computed         |-> checked.max_severity]

\* One analyze call of the caller: the rate limiter is consulted and
\* updated first (line 1059), also when the call later raises.
AnalyzeCall ==
    LET user_id  == CtxGet(context, "user_id", Unknown)
        exceeded == RateExceeded(config, rate_limits, user_id, now)
    IN  /\ exceeded \/ Len(accepted[user_id]) < MaxAccepted
        /\ rate_limits' = RateLimitsAfter(config, rate_limits, user_id, now)
        /\ ret' = [op |-> "check_rate_limit", user_id |-> user_id, now |-> now,
                   before |-> Window(rate_limits, user_id), exceeded |-> exceeded]
        /\ accepted' = AcceptedAfter(accepted, user_id, now, exceeded)
        /\ result' = Analyze(message, context, exceeded, config, owner_ids, sensitivity)
        /\ UNCHANGED <<files, client, config, owner_ids, sensitivity, now, message, context, pc, local>>

----------------------------------------------------------------------------
(* The inputs of Spec *)

Sensitivities == {"low", "medium", "high", "paranoid"}

CustomActions ==
    [LOW |-> "block", MEDIUM |-> "allow", HIGH |-> "log", CRITICAL |-> "warn"]

ActionMaps ==
    {DefaultActions, CustomActions, [DefaultActions EXCEPT !.HIGH = "quarantine"]}

Owners == {StrId("7")}

Contexts ==
    {[user_id |-> u, is_group |-> g] : u \in UserIds, g \in BOOLEAN}
    \cup {[chat_name |-> "dm"]}

\* The patterns the messages of the model can hit: for each loop of analyze
\* a rule-set of every severity it has, and two patterns of one rule-set.
SamplePatterns ==
    { PatternId(critical_sets[1], 1), PatternId(critical_sets[1], 2),
      PatternId(secret_sets[1], 1), PatternId(secret_sets[2], 1),
      PatternId(new_pattern_sets[1], 1), PatternId(new_pattern_sets[3], 1),
      PatternId(v25_pattern_sets[1], 1), PatternId(v25_pattern_sets[1], 2),
      PatternId(v25_pattern_sets[5], 1), PatternId(v252_pattern_sets[1], 1),
      PatternId(LangSets("en")[1], 1), PatternId(LangSets("en")[5], 1),
      PatternId(LangSets("ko")[2], 1) }

\* How many signals a message carries.
Signals(msg) ==
    Cardinality(msg.chars) + Cardinality(msg.hits)
    + (IF msg.repeated THEN 1 ELSE 0) + (IF msg.base64 THEN 1 ELSE 0)
    + (IF msg.word THEN 1 ELSE 0)

SmallSets(S) == {X \in SUBSET S : Cardinality(X) <= MaxSignals}

Messages ==
    {m \in {Message(c, h, r, b, w) :
                c \in SmallSets(CharClasses), h \in SmallSets(SamplePatterns),
                r \in BOOLEAN, b \in BOOLEAN, w \in BOOLEAN} :
        Signals(m) <= MaxSignals}

Init ==
    /\ config \in {[_default_config EXCEPT
                        !.sensitivity = s, !.owner_ids = Owners, !.actions = am,
                        !.rate_limit = RateLimitConfig(TRUE, 1, MaxWindow)] :
                    s \in Sensitivities, am \in ActionMaps}
    /\ owner_ids = config.owner_ids
    /\ sensitivity = config.sensitivity
    /\ rate_limits = << >>
    /\ now = 0
    /\ message \in Messages
    /\ context \in Contexts
    /\ result = None
    /\ ret = NoCall
    /\ accepted = [u \in Callers |-> <<>>]
    /\ pc = IdleThreads
    /\ local = NoLocals
    /\ files = NoFiles
    /\ client = None

Next ==
    \/ AnalyzeCall

Spec == Init /\ [][Next]_vars

----------------------------------------------------------------------------
(* normalize and the homoglyph signal on texts: SpecNorm.  The message is  *)
(* a text; the caller normalizes it, normalizes the returned text again,   *)
(* and has it analysed.                                                    *)

Alphabet == {"cyrillic_a", "roman_ii", "zwsp", "soft_hyphen", "a", "i"}

RECURSIVE TextsOfLen(_)
TextsOfLen(n) ==
    IF n = 0
    THEN {<< >>}
    ELSE {Append(t, ch) : t \in TextsOfLen(n - 1), ch \in Alphabet}

Texts == UNION {TextsOfLen(n) : n \in 0..MaxLen}

\* What the checks of analyze see of a text of letters and special
\* characters: it matches no pattern but those of TOKEN_SMUGGLING.
TextFeatures(text) ==
    Message({text[i] : i \in 1..Len(text)} \cap (HomoglyphKeys \cup invisible_chars),
            {}, FALSE, FALSE, FALSE)

NormalizeCall ==
    /\ Len(local) < 2
    /\ LET input == IF local = << >> THEN message ELSE local[Len(local)].text
           n     == normalize(input)
       IN  local' = Append(local, [input |-> input, text |-> n.text,
                                   changed |-> n.changed, fired |-> n.fired])
    /\ UNCHANGED <<files, client, config, owner_ids, sensitivity, rate_limits, now, message, context,
                   result, ret, accepted, pc>>

AnalyzeText ==
    LET user_id  == CtxGet(context, "user_id", Unknown)
        exceeded == RateExceeded(config, rate_limits, user_id, now)
    IN  /\ result = None
        /\ rate_limits' = RateLimitsAfter(config, rate_limits, user_id, now)
        /\ ret' = [op |-> "check_rate_limit", user_id |-> user_id, now |-> now,
                   before |-> Window(rate_limits, user_id), exceeded |-> exceeded]
        /\ accepted' = AcceptedAfter(accepted, user_id, now, exceeded)
        /\ result' = Analyze(TextFeatures(message), context, exceeded, config, owner_ids,
                             sensitivity)
        /\ UNCHANGED <<files, client, config, owner_ids, sensitivity, now, message, context, pc, local>>

TextConfigs ==
    {[_default_config EXCEPT !.sensitivity = s, !.owner_ids = Owners] : s \in Sensitivities}

InitNorm ==
    /\ config \in TextConfigs
    /\ owner_ids = config.owner_ids
    /\ sensitivity = config.sensitivity
    /\ rate_limits = << >>
    /\ now = 0
    /\ message \in Texts
    /\ context \in {[user_id |-> StrId("7")], [chat_name |-> "dm"]}
    /\ result = None
    /\ ret = NoCall
    /\ accepted = [u \in Callers |-> <<>>]
    /\ pc = IdleThreads
    /\ local = << >>
    /\ files = NoFiles
    /\ client = None

NextNorm ==
    \/ NormalizeCall
    \/ AnalyzeText

SpecNorm == InitNorm /\ [][NextNorm]_vars

----------------------------------------------------------------------------
(* The repetition detector on texts: SpecLines.  A text is a sequence of   *)
(* newlines and of chunks, the maximal runs without a newline; a chunk is  *)
(* known by its content after strip(), the length of that content, and     *)
(* whether whitespace surrounds it.                                        *)

MinLineLength == 20

Chunk(body, len, padded) == [body |-> body, len |-> len, padded |-> padded]

Newline == Chunk("\n", 1, FALSE)

EmptyLine == Chunk("", 0, FALSE)

Lines ==
    { EmptyLine,
      Chunk("ok", 2, FALSE),
      Chunk("C", MinLineLength, FALSE),
      Chunk("A", MinLineLength + 1, FALSE),
      Chunk("A", MinLineLength + 1, TRUE),
      Chunk("B", MinLineLength + 1, FALSE) }

\* "\n".join(lines), the text whose lines these are
RECURSIVE Join(_)
Join(ls) ==
    IF ls = << >>
    THEN << >>
    ELSE (IF Head(ls) = EmptyLine THEN << >> ELSE <<Head(ls)>>)
         \o (IF Len(ls) = 1 THEN << >> ELSE <<Newline>> \o Join(Tail(ls)))

\* message.split("\n"): cur is the line being read, done the lines before it
RECURSIVE SplitFrom(_, _, _)
SplitFrom(text, done, cur) ==
    IF text = << >>
    THEN Append(done, cur)
    ELSE IF Head(text) = Newline
         THEN SplitFrom(Tail(text), Append(done, cur), EmptyLine)
         ELSE SplitFrom(Tail(text), done, Head(text))

split(text) == SplitFrom(text, << >>, EmptyLine)

\* line.strip()
strip(line) == [line EXCEPT !.padded = FALSE]

\* lines 1162-1165: the test of the repetition detector
RepetitionTest(text) ==
    LET lines == split(text)
        unique_lines == {strip(lines[i]) :
                            i \in {j \in 1..Len(lines) : strip(lines[j]).len > MinLineLength}}
    IN  /\ Len(lines) > 3
        /\ Len(lines) > Cardinality(unique_lines) * 2

LineFeatures(text) == Message({}, {}, RepetitionTest(text), FALSE, FALSE)

AnalyzeLines ==
    LET user_id  == CtxGet(context, "user_id", Unknown)
        exceeded == RateExceeded(config, rate_limits, user_id, now)
    IN  /\ result = None
        /\ rate_limits' = RateLimitsAfter(config, rate_limits, user_id, now)
        /\ ret' = [op |-> "check_rate_limit", user_id |-> user_id, now |-> now,
                   before |-> Window(rate_limits, user_id), exceeded |-> exceeded]
        /\ accepted' = AcceptedAfter(accepted, user_id, now, exceeded)
        /\ result' = Analyze(LineFeatures(message), context, exceeded, config, owner_ids,
                             sensitivity)
        /\ UNCHANGED <<files, client, config, owner_ids, sensitivity, now, message, context, pc, local>>

RECURSIVE LineLists(_)
LineLists(n) ==
    IF n = 0
    THEN {<< >>}
    ELSE {Append(ls, l) : ls \in LineLists(n - 1), l \in Lines}

InitLines ==
    /\ config \in TextConfigs
    /\ owner_ids = config.owner_ids
    /\ sensitivity = config.sensitivity
    /\ rate_limits = << >>
    /\ now = 0
    /\ message \in {Join(ls) : ls \in UNION {LineLists(n) : n \in 1..MaxLines}}
    /\ context = [chat_name |-> "dm"]
    /\ result = None
    /\ ret = NoCall
    /\ accepted = [u \in Callers |-> <<>>]
    /\ pc = IdleThreads
    /\ local = NoLocals
    /\ files = NoFiles
    /\ client = None

NextLines ==
    \/ AnalyzeLines

SpecLines == InitLines /\ [][NextLines]_vars

----------------------------------------------------------------------------
(* One PromptGuard serving several callers in turn: SpecCallers.  message  *)
(* and context are the arguments of the last analyze call.                 *)

CallerMessages ==
    { Message({}, {}, FALSE, FALSE, FALSE),
      Message({}, {PatternId(critical_sets[1], 1)}, FALSE, FALSE, FALSE) }

CallerContexts == {[user_id |-> u, is_group |-> TRUE] : u \in RateUsers}

Analyze_(msg, ctx) ==
    LET user_id  == CtxGet(ctx, "user_id", Unknown)
        exceeded == RateExceeded(config, rate_limits, user_id, now)
    IN  /\ exceeded \/ Len(accepted[user_id]) < MaxAccepted
        /\ message' = msg
        /\ context' = ctx
        /\ rate_limits' = RateLimitsAfter(config, rate_limits, user_id, now)
        /\ ret' = [op |-> "check_rate_limit", user_id |-> user_id, now |-> now,
                   before |-> Window(rate_limits, user_id), exceeded |-> exceeded]
        /\ accepted' = AcceptedAfter(accepted, user_id, now, exceeded)
        /\ result' = Analyze(msg, ctx, exceeded, config, owner_ids, sensitivity)
        /\ UNCHANGED <<files, client, config, owner_ids, sensitivity, now, pc, local>>

InitCallers ==
    /\ config \in {[_default_config EXCEPT !.rate_limit = RateLimitConfig(TRUE, n, w)] :
                    n \in 1..MaxCap, w \in 1..MaxWindow}
    /\ owner_ids = config.owner_ids
    /\ sensitivity = config.sensitivity
    /\ rate_limits = << >>
    /\ now = 0
    /\ message = None
    /\ context = None
    /\ result = None
    /\ ret = NoCall
    /\ accepted = [u \in Callers |-> <<>>]
    /\ pc = IdleThreads
    /\ local = NoLocals
    /\ files = NoFiles
    /\ client = None

NextCallers ==
    \/ Tick
    \/ \E msg \in CallerMessages, ctx \in CallerContexts : Analyze_(msg, ctx)

SpecCallers == InitCallers /\ [][NextCallers]_vars

----------------------------------------------------------------------------
(* The rate limiter over unbounded time: SpecLive.  check_rate_limit uses  *)
(* a timestamp t only in now - t < window_seconds, so the origin of the    *)
(* clock is immaterial: once now has reached MaxTime the clock advances by *)
(* moving every recorded timestamp one tick back.  A timestamp that        *)
(* reaches 0 stays there; it is MaxTime >= window_seconds old, expired for *)
(* good.  The history accepted is not kept.                                *)


TickLive ==
    /\ IF now < MaxTime
       THEN /\ now' = now + 1
            /\ rate_limits' = rate_limits
       ELSE /\ now' = now
            /\ rate_limits' = [u \in DOMAIN rate_limits |->
                                  [i \in 1..Len(rate_limits[u]) |-> IF rate_limits[u][i] > 0 THEN rate_limits[u][i] - 1 ELSE 0]]
    /\ UNCHANGED <<files, client, config, owner_ids, sensitivity, message, context,
                   result, ret, accepted, pc, local>>

CallLive(user_id) ==
    /\ rate_limits' = RateLimitsAfter(config, rate_limits, user_id, now)
    /\ ret' = [op |-> "check_rate_limit", user_id |-> user_id, now |-> now,
               before |-> Window(rate_limits, user_id),
               exceeded |-> RateExceeded(config, rate_limits, user_id, now)]
    /\ UNCHANGED <<files, client, config, owner_ids, sensitivity, now, message, context,
                   result, accepted, pc, local>>

NextLive ==
    \/ TickLive
    \/ \E u \in RateUsers : CallLive(u)

\* Time advances, and every identity keeps calling.
SpecLive ==
    /\ InitRate
    /\ [][NextLive]_vars
    /\ WF_vars(TickLive)
    /\ \A u \in RateUsers : WF_vars(CallLive(u))

----------------------------------------------------------------------------
(* The audit log: PromptGuard.log_detection (detect.py) and parse_log      *)
(* (analyze_log.py).  The log file is the sequence of its lines, each      *)
(* ended by "\n"; a line is known by its kind and its fields.  A message   *)
(* is a sequence of characters: "x", the line feed and the carriage        *)
(* return.  The text of the Patterns line is a sequence of tokens, the     *)
(* reason tags and the separator ", ".                                     *)

\* self.config.get("logging", {}).get(key, default)
LoggingGet(cfg, key, default) ==
    IF "logging" \in DOMAIN cfg /\ key \in DOMAIN cfg.logging
    THEN cfg.logging[key]
    ELSE default

\* A day has this many ticks of the clock.
TicksPerDay == 2

\* now.strftime("%Y-%m-%d") and now.strftime("%H:%M:%S")
date_str(t_now) == t_now \div TicksPerDay
time_str(t_now) == t_now % TicksPerDay

\* message[:100]
MessageLimit == 100

LF == "\n"
CR == "\r"

LogText(n, lfs, crs) ==
    [i \in 1..n |-> IF i \in lfs THEN LF ELSE IF i \in crs THEN CR ELSE "x"]

\* message[:100].replace("\n", " ")
safe_msg(msg) ==
    LET cut == SubSeq(msg, 1, IF Len(msg) > MessageLimit THEN MessageLimit ELSE Len(msg))
    IN  [i \in 1..Len(cut) |-> IF cut[i] = LF THEN " " ELSE cut[i]]

\* ', '.join(result.reasons)
RECURSIVE JoinReasons(_)
JoinReasons(reasons) ==
    IF reasons = << >>
    THEN << >>
    ELSE IF Len(reasons) = 1
         THEN <<Head(reasons)>>
         ELSE <<Head(reasons), <<", ">>>> \o JoinReasons(Tail(reasons))

\* A log is the sequence of its lines; a line is known by its kind and by
\* the values written in it.

\* f"## {date_str}" in content, for a log whose texts hold no "#"
HasDateHeader(content, date) ==
    content # None /\ \E i \in 1..Len(content) : content[i] = [kind |-> "date", date |-> date]

\* lines 1292-1307: the lines of "\n".join(entry)
Entry(res, msg, ctx, t_now, add_date_header, cfg) ==
    (IF add_date_header
     THEN <<[kind |-> "blank"], [kind |-> "date", date |-> date_str(t_now)],
            [kind |-> "blank"]>>
     ELSE << >>)
    \o <<[kind |-> "entry", time |-> time_str(t_now),
          severity |-> SeverityName(res.severity),
          user_id |-> str(CtxGet(ctx, "user_id", Unknown)).s,
          chat |-> CtxGet(ctx, "chat_name", "unknown")],
         [kind |-> "patterns", text |-> JoinReasons(res.reasons)]>>
    \o (IF LoggingGet(cfg, "include_message", FALSE)
        THEN <<[kind |-> "message", text |-> safe_msg(msg),
                ellipsis |-> Len(msg) > MessageLimit]>>
        ELSE << >>)
    \o <<[kind |-> "action", action |-> res.action],
         [kind |-> "fingerprint", fingerprint |-> res.fingerprint]>>

\* log_detection(result, message, context) called at t_now: the log it leaves
LogAfter(content, res, msg, ctx, t_now, cfg) ==
    IF ~LoggingGet(cfg, "enabled", TRUE)
    THEN content
    ELSE (IF content = None THEN << >> ELSE content)
         \o Entry(res, msg, ctx, t_now, ~HasDateHeader(content, date_str(t_now)), cfg)

\* path.read_text(): in text mode a carriage return is read as "\n", so a
\* message line with carriage returns is read as several lines; the lines
\* after the first start with neither "#" nor "- ".
Translate(ch) == IF ch = CR THEN LF ELSE ch

FirstBreak(text) ==
    IF \E i \in 1..Len(text) : Translate(text[i]) = LF
    THEN CHOOSE i \in 1..Len(text) :
            /\ Translate(text[i]) = LF
            /\ \A j \in 1..(i - 1) : Translate(text[j]) # LF
    ELSE 0

ReadLine(line) ==
    IF line.kind = "message" /\ FirstBreak(line.text) > 0
    THEN <<[line EXCEPT !.text = SubSeq(line.text, 1, FirstBreak(line.text) - 1)]>>
         \o [i \in 1..Cardinality({j \in 1..Len(line.text) : Translate(line.text[j]) = LF})
                |-> [kind |-> "other"]]
    ELSE <<line>>

RECURSIVE read_text(_)
read_text(content) ==
    IF content = << >>
    THEN << >>
    ELSE ReadLine(Head(content)) \o read_text(Tail(content))

\* detail[10:].split(', '): piece is the string being read
RECURSIVE SplitPatternsFrom(_, _, _)
SplitPatternsFrom(text, done, piece) ==
    IF text = << >>
    THEN Append(done, piece)
    ELSE IF Head(text) = <<", ">>
         THEN SplitPatternsFrom(Tail(text), Append(done, piece), << >>)
         ELSE SplitPatternsFrom(Tail(text), done, Append(piece, Head(text)))

\* lines 55-64: a detail line sets a field of the last entry
WithDetail(entry, line) ==
    CASE line.kind = "patterns"    -> [entry EXCEPT !.patterns = SplitPatternsFrom(line.text, << >>, << >>)]
      [] line.kind = "message"     -> [entry EXCEPT !.message = line.text]
      [] line.kind = "action"      -> [entry EXCEPT !.action = line.action]
      [] line.kind = "fingerprint" -> [entry EXCEPT !.fingerprint = line.fingerprint]

\* The loop of parse_log over content.split('\n').  The regular expression
\* of line 36 matches an entry header whose identity and chat name hold no
\* whitespace when \S+ and .+ have a character each.
RECURSIVE ParseFrom(_, _, _)
ParseFrom(lines, entries, current_date) ==
    IF lines = << >>
    THEN entries
    ELSE LET line == Head(lines) IN
         IF line.kind = "date"
         THEN ParseFrom(Tail(lines), entries, line.date)
         ELSE IF line.kind = "entry" /\ line.user_id # "" /\ line.chat # ""
         THEN ParseFrom(Tail(lines),
                        Append(entries,
                               [date |-> current_date, time |-> line.time,
                                severity |-> line.severity, user_id |-> line.user_id,
                                chat |-> line.chat, patterns |-> << >>, message |-> None,
                                action |-> "None", fingerprint |-> None]),
                        current_date)
         ELSE IF entries # << >>
                 /\ line.kind \in {"patterns", "message", "action", "fingerprint"}
         THEN ParseFrom(Tail(lines),
                        [entries EXCEPT ![Len(entries)] = WithDetail(@, line)],
                        current_date)
         ELSE ParseFrom(Tail(lines), entries, current_date)

\* parse_log(log_path); current_date = None is the date -1
parse_log(content) ==
    IF content = None
    THEN << >>
    ELSE ParseFrom(Append(read_text(content), [kind |-> "blank"]), << >>, -1)

(* Sequential log_detection calls and a clock: SpecLog.  message, context  *)
(* and result are the arguments of the last call.                          *)

\* result is what analyze gives a non-owner under the default configuration.
LogCall(features, text, ctx) ==
    [result |-> Analyze(features, ctx, FALSE, _default_config, {}, "medium"),
     message |-> text, context |-> ctx]

\* A clean message; one with a line feed and two reasons; one with a
\* carriage return and a reason listed twice; one longer than the limit
\* from a sender whose identity is the empty string.
LogCalls ==
    { LogCall(Message({}, {}, FALSE, FALSE, FALSE), LogText(2, {}, {}), << >>),
      LogCall(Message({"zwsp"}, {}, FALSE, FALSE, FALSE), LogText(3, {2}, {}),
              [user_id |-> StrId("42"), chat_name |-> "grp"]),
      LogCall(Message({}, {PatternId(critical_sets[1], 1), PatternId(critical_sets[1], 2)},
                      FALSE, FALSE, FALSE),
              LogText(3, {}, {2}), [user_id |-> IntId("7"), chat_name |-> "grp"]),
      LogCall(Message({}, {PatternId(LangSets("en")[1], 1)}, FALSE, FALSE, FALSE),
              LogText(MessageLimit + 1, {MessageLimit}, {}),
              [user_id |-> StrId(""), chat_name |-> "grp"]) }

NumEntries(content) ==
    IF content = None
    THEN 0
    ELSE Cardinality({i \in 1..Len(content) : content[i].kind = "entry"})

LogDetection(call) ==
    /\ NumEntries(files.log) < MaxEntries
    /\ files' = [files EXCEPT
                    !.log = LogAfter(@, call.result, call.message, call.context, now, config)]
    /\ result' = call.result
    /\ message' = call.message
    /\ context' = call.context
    /\ ret' = [op |-> "log_detection", now |-> now, before |-> files.log]
    /\ UNCHANGED <<client, config, owner_ids, sensitivity, rate_limits, now, accepted,
                   pc, local>>

InitLog ==
    /\ config \in {[_default_config EXCEPT !.logging = l] : l \in
          { _default_config.logging,
            [enabled |-> FALSE, path |-> "memory/security-log.md"],
            [enabled |-> TRUE, path |-> "memory/security-log.md", include_message |-> TRUE],
            [enabled |-> TRUE, path |-> "memory/security-log.md", include_message |-> FALSE] }}
    /\ owner_ids = config.owner_ids
    /\ sensitivity = config.sensitivity
    /\ rate_limits = << >>
    /\ now = 0
    /\ message = None
    /\ context = None
    /\ result = None
    /\ ret = NoCall
    /\ accepted = [u \in Callers |-> <<>>]
    /\ pc = IdleThreads
    /\ local = NoLocals
    /\ files = NoFiles
    /\ client = None

NextLog ==
    \/ Tick
    \/ \E call \in LogCalls : LogDetection(call)

SpecLog == InitLog /\ [][NextLog]_vars

(* Concurrent writers of one log: SpecLogConc.  Each thread runs            *)
(* log_detection in three steps, and the other threads run between them;   *)
(* the method takes no lock.                                               *)

\* The calls the writers make: one record, logged by every thread.
WriterCalls ==
    { LogCall(Message({"zwsp"}, {}, FALSE, FALSE, FALSE), LogText(2, {}, {}),
              [user_id |-> StrId("42"), chat_name |-> "grp"]) }

\* lines 1270-1283: the enabled test, datetime.now() and the context reads
LogEnter(t, call) ==
    /\ pc[t] = "idle"
    /\ LoggingGet(config, "enabled", TRUE)
    /\ NumEntries(files.log) + Cardinality({u \in 1..NumThreads : pc[u] # "idle"}) < MaxEntries
    /\ pc' = [pc EXCEPT ![t] = "check_header"]
    /\ local' = [local EXCEPT ![t] = [call |-> call, now |-> now,
                                      add_date_header |-> TRUE]]
    /\ UNCHANGED <<files, client, config, owner_ids, sensitivity, rate_limits, now, message,
                   context, result, ret, accepted>>

\* lines 1285-1290: read the file and look for the header of the day
LogCheckHeader(t) ==
    /\ pc[t] = "check_header"
    /\ pc' = [pc EXCEPT ![t] = "append"]
    /\ local' = [local EXCEPT
                    ![t].add_date_header = ~HasDateHeader(files.log, date_str(local[t].now))]
    /\ UNCHANGED <<files, client, config, owner_ids, sensitivity, rate_limits, now, message,
                   context, result, ret, accepted>>

\* lines 1292-1310: build the entry and append it
LogAppend(t) ==
    /\ pc[t] = "append"
    /\ files' = [files EXCEPT
                    !.log = (IF @ = None THEN << >> ELSE @)
                            \o Entry(local[t].call.result, local[t].call.message,
                                     local[t].call.context, local[t].now,
                                     local[t].add_date_header, config)]
    /\ result' = local[t].call.result
    /\ message' = local[t].call.message
    /\ context' = local[t].call.context
    /\ ret' = [op |-> "log_detection", now |-> local[t].now, before |-> files.log]
    /\ pc' = [pc EXCEPT ![t] = "idle"]
    /\ local' = [local EXCEPT ![t] = None]
    /\ UNCHANGED <<client, config, owner_ids, sensitivity, rate_limits, now, accepted>>

NextLogConc ==
    \/ Tick
    \/ \E t \in 1..NumThreads, call \in WriterCalls : LogEnter(t, call)
    \/ \E t \in 1..NumThreads : LogCheckHeader(t)
    \/ \E t \in 1..NumThreads : LogAppend(t)

SpecLogConc == InitLog /\ [][NextLogConc]_vars

----------------------------------------------------------------------------
(* HiveFenceClient.fetch_latest and its cache (hivefence.py): SpecHive.    *)
(* A pattern is known by its id and its status; a pattern list is a        *)
(* sequence of them.  files.cache is None while the cache file does not    *)
(* exist; ret holds the last fetch_latest call and, as history, whether a  *)
(* fetch has succeeded and the list of the last one that did.              *)

PatternIds == {"p1", "p2", "p3"}

\* The lists of pattern ids the server answers with.
IdLists ==
    {<< >>} \cup {<<a>> : a \in PatternIds}
    \cup {ab \in PatternIds \X PatternIds : ab[1] # ab[2]}

\* The patterns built from the entries of a response or of the cache file.
Patterns(ids, status) == [i \in 1..Len(ids) |-> [id |-> ids[i], status |-> status]]

Ids(patterns) == [i \in 1..Len(patterns) |-> patterns[i].id]

\* The cache file as json.dump(data, f) leaves it
CacheFile(patterns) == [valid |-> TRUE, patterns |-> Ids(patterns)]

\* _save_cache(patterns): how |-> "written" when the dump succeeds,
\* "not_opened" when makedirs or open raises, "truncated" when the file
\* was opened for writing and the dump raises; every exception is passed.
_save_cache(cache, patterns, how) ==
    CASE how = "written"    -> CacheFile(patterns)
      [] how = "not_opened" -> cache
      [] how = "truncated"  -> [valid |-> FALSE, patterns |-> << >>]

\* _load_cache(): the list returned and the client it leaves
_load_cache(cl, cache) ==
    IF cl._cache_loaded /\ cl._patterns_cache # << >>
    THEN [patterns |-> cl._patterns_cache, client |-> cl]
    ELSE IF cache # None /\ cache.valid
         THEN LET patterns == Patterns(cache.patterns, "cached")
              IN  [patterns |-> patterns,
                   client   |-> [_patterns_cache |-> patterns, _cache_loaded |-> TRUE]]
         ELSE [patterns |-> << >>, client |-> cl]

\* fetch_latest() whose request succeeds with the list ids
FetchLatest(ids, how) ==
    LET patterns == Patterns(ids, "approved") IN
    /\ client' = [client EXCEPT !._patterns_cache = patterns]
    /\ files' = [files EXCEPT !.cache = _save_cache(files.cache, patterns, how)]
    /\ ret' = [op |-> "fetch_latest", failed |-> FALSE, patterns |-> patterns,
               fetched |-> TRUE, last_ok |-> patterns]
    /\ UNCHANGED <<config, owner_ids, sensitivity, rate_limits, now, message, context,
                   result, accepted, pc, local>>

\* fetch_latest() whose request fails: _request returns {"error": ...}
FetchFails ==
    LET loaded == _load_cache(client, files.cache) IN
    /\ client' = loaded.client
    /\ ret' = [op |-> "fetch_latest", failed |-> TRUE, patterns |-> loaded.patterns,
               fetched |-> ret.fetched, last_ok |-> ret.last_ok]
    /\ UNCHANGED <<files, config, owner_ids, sensitivity, rate_limits, now, message,
                   context, result, accepted, pc, local>>

\* A new client; the cache file may be there from an earlier process.
InitHive ==
    /\ config = _default_config
    /\ owner_ids = config.owner_ids
    /\ sensitivity = config.sensitivity
    /\ rate_limits = << >>
    /\ now = 0
    /\ message = None
    /\ context = None
    /\ result = None
    /\ ret = [op |-> "none", fetched |-> FALSE, last_ok |-> << >>]
    /\ accepted = [u \in Callers |-> <<>>]
    /\ pc = IdleThreads
    /\ local = NoLocals
    /\ files \in {[NoFiles EXCEPT !.cache = c] :
                    c \in {None} \cup {CacheFile(Patterns(ids, "approved")) : ids \in IdLists}}
    /\ client = [_patterns_cache |-> << >>, _cache_loaded |-> FALSE]

NextHive ==
    \/ \E ids \in IdLists, how \in {"written", "not_opened", "truncated"} : FetchLatest(ids, how)
    \/ FetchFails

SpecHive == InitHive /\ [][NextHive]_vars

----------------------------------------------------------------------------
(* Claims about the rate limiter *)

LastUser == ret.user_id

\* The times of the calls of LastUser reported not-exceeded before the last call.
PriorAccepted ==
    IF ret.exceeded
    THEN accepted[LastUser]
    ELSE SubSeq(accepted[LastUser], 1, Len(accepted[LastUser]) - 1)

\* How many of them are still inside the window at the time of the last call.
InsideCount ==
    Cardinality({i \in 1..Len(PriorAccepted) :
                    ret.now - PriorAccepted[i] < config.rate_limit.window_seconds})

LastCallLimited == ret.op = "check_rate_limit" /\ config.rate_limit.enabled

\* C1: with cap N and window W, a call made when N accepted calls of the
\* identity are still inside the window reports exceeded; a call made when
\* every accepted call is at least W old reports not-exceeded (N >= 1).
C1_CapAndExpiry ==
    LastCallLimited =>
        /\ InsideCount >= config.rate_limit.max_requests => ret.exceeded
        /\ (config.rate_limit.max_requests >= 1 /\ InsideCount = 0) => ~ret.exceeded

\* The (N+1)-th call inside the window is refused while older accepted calls
\* have expired and are not counted.
C1_Witness ==
    /\ LastCallLimited
    /\ config.rate_limit.max_requests >= 1
    /\ ret.exceeded
    /\ InsideCount = config.rate_limit.max_requests
    /\ Len(PriorAccepted) > InsideCount

InsideAtLastCall(w) ==
    LET inside(t) == ret.now - t < config.rate_limit.window_seconds
    IN  SelectSeq(w, inside)

\* C2: a call reported exceeded leaves the identity's window as it was apart
\* from pruning; a call reported not-exceeded appends exactly its own time.
C2_RejectedNotRecorded ==
    LastCallLimited =>
        /\ ret.exceeded  => rate_limits[LastUser] = InsideAtLastCall(ret.before)
        /\ ~ret.exceeded => rate_limits[LastUser] = Append(InsideAtLastCall(ret.before), ret.now)

C2_Witness ==
    /\ LastCallLimited
    /\ ret.exceeded
    /\ Len(ret.before) >= 1
    /\ rate_limits[LastUser] = ret.before

AllDone == \A t \in 1..NumThreads : pc[t] = "done"

Orders ==
    {o \in [1..NumThreads -> 1..NumThreads] : \A i, j \in 1..NumThreads : o[i] = o[j] => i = j}

\* The calls of the threads run one after the other in the order o, each
\* with the now it read: the map they leave and the verdict of each thread.
RECURSIVE SerialRun(_, _, _, _)
SerialRun(o, i, rl, verdicts) ==
    IF i > NumThreads
    THEN [rate_limits |-> rl, verdicts |-> verdicts]
    ELSE LET t == o[i]
             u == local[t].user_id
         IN  SerialRun(o, i + 1,
                       RateLimitsAfter(config, rl, u, local[t].now),
                       [verdicts EXCEPT ![t] = RateExceeded(config, rl, u, local[t].now)])

\* C3: concurrent check_rate_limit calls are serialized: the final map and
\* the verdicts are those of some serial order of the calls, and no window
\* holds more than the cap.
C3_Serialized ==
    AllDone =>
        /\ \E o \in Orders :
              LET s == SerialRun(o, 1, << >>, [t \in 1..NumThreads |-> FALSE])
              IN  /\ s.rate_limits = rate_limits
                  /\ \A t \in 1..NumThreads : s.verdicts[t] = local[t].ret
        /\ \A u \in DOMAIN rate_limits :
              config.rate_limit.enabled => Len(rate_limits[u]) <= config.rate_limit.max_requests

----------------------------------------------------------------------------
(* Claims about analyze *)

\* analyze returned a DetectionResult (it did not raise).
Returned == "raised" \in DOMAIN result /\ ~result.raised

Sender == CtxGet(context, "user_id", Unknown)

\* The sender's identity is one of the configured owners.
SenderIsOwner == Sender.s \in {o.s : o \in config.owner_ids}

InGroup == CtxGet(context, "is_group", FALSE)

\* The rate limit was exceeded in the analyze call that produced result.
Breached == ret.exceeded

AllLoops == critical_loop \o secret_loop \o new_loop \o v25_loop \o v252_loop \o lang_loop

\* The rule-sets with a pattern that matches the message.
FiredSets(msg) == {AllLoops[n].rs : n \in {i \in 1..Len(AllLoops) : AllLoops[i].id \in Found(msg)}}

\* The severity floors of the signals that fire for msg.
FiredFloors(msg, exceeded) ==
    (IF exceeded THEN {HIGH} ELSE {})
    \cup (IF has_homoglyphs(msg) THEN {MEDIUM} ELSE {})
    \cup {rs.severity : rs \in FiredSets(msg)}
    \cup (IF has_invisible(msg) THEN {HIGH} ELSE {})
    \cup (IF msg.repeated THEN {HIGH} ELSE {})
    \cup (IF msg.base64 THEN {MEDIUM} ELSE {})

MaxOf(S) == IF S = {} THEN SAFE ELSE CHOOSE x \in S : \A y \in S : y <= x

\* The messages that carry a subset of the signals of msg.
SubMessages(msg) ==
    {Message(c, h, r, b, w) :
        c \in SUBSET msg.chars, h \in SUBSET msg.hits,
        r \in {FALSE, msg.repeated}, b \in {FALSE, msg.base64}, w \in {FALSE, msg.word}}

FinalSeverity(msg, exceeded) ==
    SensitivityStep(Checks(msg, exceeded), sensitivity, msg).max_severity

\* C4: the severity before the sensitivity adjustment is the maximum of the
\* floors of the signals that fired (SAFE when none did), and the final
\* severity of a subset of the signals is never higher than that of the set.
C4_SeverityIsMaximum ==
    Returned =>
        /\ result.computed = MaxOf(FiredFloors(message, Breached))
        /\ \A m \in SubMessages(message) : \A e \in {FALSE, Breached} :
              FinalSeverity(m, e) <= result.severity

\* A weaker signal (base64, MEDIUM) is checked after a stronger one fired.
C4_Witness ==
    /\ Returned
    /\ message.base64
    /\ Cardinality(FiredFloors(message, Breached)) >= 2
    /\ result.computed > MEDIUM

CriticalMatch(msg) == \E rs \in FiredSets(msg) : rs.tag = "critical_pattern"

SecretMatch(msg) == \E rs \in FiredSets(msg) : rs.tag = "secret_request"

\* C5: a message that matches a critical pattern has final severity
\* CRITICAL, for every sensitivity, sender, channel and rate-limit verdict.
C5_CriticalAlwaysCritical ==
    (Returned /\ CriticalMatch(message)) => result.severity = CRITICAL

C5_Witness ==
    /\ Returned
    /\ CriticalMatch(message)
    /\ sensitivity = "low"
    /\ SenderIsOwner
    /\ Breached
    /\ has_invisible(message)
    /\ result.severity = CRITICAL

NoCorpusMatch(msg) == Found(msg) = {}

NoHeuristic(msg) == ~has_invisible(msg) /\ ~msg.repeated

Analyzed == "raised" \in DOMAIN result

\* C6 as claimed: no corpus match, no heuristic detector and no rate-limit
\* breach give SAFE and ALLOW for every sensitivity; SAFE gives ALLOW.
C6_CleanIsSafe ==
    /\ (Analyzed /\ NoCorpusMatch(message) /\ NoHeuristic(message) /\ ~Breached) =>
          (Returned /\ result.severity = SAFE /\ result.action = "allow")
    /\ (Returned /\ result.severity = SAFE) => result.action = "allow"

\* C6 as amended: the message must also be free of homoglyph substitutions
\* and of suspicious base64, and under paranoid free of the bare suspicious
\* words; SAFE gives ALLOW.
C6_CleanIsSafeAmended ==
    /\ (Analyzed /\ NoCorpusMatch(message) /\ NoHeuristic(message) /\ ~Breached
          /\ ~has_homoglyphs(message) /\ ~message.base64
          /\ (sensitivity = "paranoid" => ~message.word)) =>
          (Returned /\ result.severity = SAFE /\ result.action = "allow")
    /\ (Returned /\ result.severity = SAFE) => result.action = "allow"

C6_Witness ==
    /\ Returned
    /\ NoCorpusMatch(message) /\ NoHeuristic(message) /\ ~Breached
    /\ ~has_homoglyphs(message) /\ ~message.base64 /\ ~message.word
    /\ sensitivity = "paranoid"
    /\ InGroup /\ ~SenderIsOwner
    /\ result.severity = SAFE /\ result.action = "allow"

\* C7: an owner gets LOG for every result of severity LOW, MEDIUM or HIGH,
\* whatever the action map, the channel and the rate-limit verdict.
C7_OwnerLogsBelowCritical ==
    (Returned /\ SenderIsOwner /\ result.severity \in {LOW, MEDIUM, HIGH}) =>
        result.action = "log"

\* An owner whose user_id is an int, in a group, rate limited, under a map
\* whose HIGH entry is no Action value.
C7_Witness ==
    /\ Returned
    /\ Sender = IntId("7")
    /\ InGroup
    /\ Breached
    /\ result.severity = HIGH
    /\ config.actions.HIGH \notin ActionValues
    /\ result.action = "log"

HasReason(tag) == InSeq(tag, result.reasons)

\* C8: a non-owner in a group with severity MEDIUM or higher gets BLOCK and
\* the reason group_non_owner, whatever the map; in every other case the
\* reason group_non_owner is absent.
C8_GroupNonOwnerBlocked ==
    Returned =>
        IF InGroup /\ ~SenderIsOwner /\ result.severity >= MEDIUM
        THEN result.action = "block" /\ HasReason(<<"group_non_owner">>)
        ELSE ~HasReason(<<"group_non_owner">>)

C8_Witness ==
    /\ Returned
    /\ InGroup /\ ~SenderIsOwner
    /\ result.severity = MEDIUM
    /\ config.actions = CustomActions
    /\ result.action = "block"
    /\ HasReason(<<"group_non_owner">>)

\* C9 as claimed: a secret request (CRITICAL) sent by an owner gets LOG.
C9_OwnerSecretLogged ==
    (Returned /\ SecretMatch(message) /\ SenderIsOwner /\ result.severity = CRITICAL) =>
        result.action = "log"

\* C9 as amended: it gets the action the map configures for CRITICAL
\* (block_notify by default), in a group or not.
C9_OwnerSecretPerMap ==
    (Returned /\ SecretMatch(message) /\ SenderIsOwner /\ result.severity = CRITICAL) =>
        result.action = config.actions.CRITICAL

C9_Witness ==
    /\ Returned
    /\ SecretMatch(message)
    /\ SenderIsOwner
    /\ InGroup
    /\ result.severity = CRITICAL
    /\ config.actions = DefaultActions
    /\ result.action = "block_notify"

\* C10 as claimed: a CRITICAL result for a non-owner under the default map
\* has action block_notify, in a group or not.
C10_NonOwnerCriticalNotified ==
    (Returned /\ ~SenderIsOwner /\ result.severity = CRITICAL
        /\ config.actions = DefaultActions) =>
        result.action = "block_notify"

\* C10 as amended: block_notify outside a group, block (with the reason
\* group_non_owner) in a group.
C10_NonOwnerCriticalByChannel ==
    (Returned /\ ~SenderIsOwner /\ result.severity = CRITICAL
        /\ config.actions = DefaultActions) =>
        IF InGroup
        THEN result.action = "block" /\ HasReason(<<"group_non_owner">>)
        ELSE result.action = "block_notify"

C10_Witness ==
    /\ Returned
    /\ ~SenderIsOwner
    /\ ~InGroup
    /\ result.severity = CRITICAL
    /\ config.actions = DefaultActions
    /\ result.action = "block_notify"

\* C11: a message with a character of the invisible-character set has the
\* reason invisible_characters and a final severity of HIGH or more,
\* whatever else matches.
C11_InvisibleReported ==
    (Returned /\ has_invisible(message)) =>
        /\ HasReason(<<"invisible_characters">>)
        /\ result.severity >= HIGH

\* C13: no reason tag occurs twice in the reasons of a result.
C13_ReasonsListedOnce ==
    Returned =>
        \A i, j \in 1..Len(result.reasons) :
            result.reasons[i] = result.reasons[j] => i = j

ReasonSet(r) == {r.reasons[i] : i \in 1..Len(r.reasons)}

\* C14: two results have the same fingerprint exactly when they have the
\* same identity, the same final severity and the same set of reasons.
C14_FingerprintBySet ==
    Returned =>
        \A m \in SubMessages(message) : \A c \in Contexts :
            LET other == Analyze(m, c, Breached, config, owner_ids, sensitivity)
            IN  ~other.raised =>
                    ((/\ CtxGet(c, "user_id", Unknown).s = Sender.s
                      /\ other.severity = result.severity
                      /\ ReasonSet(other) = ReasonSet(result))
                     <=> other.fingerprint = result.fingerprint)

\* C15: every signal that fired with the pre-adjustment severity as its
\* floor has its tag in reasons (a pattern also its entry in
\* patterns_matched), and a result above SAFE has reasons.
C15_NoSignalDropped ==
    Returned =>
        /\ \A n \in 1..Len(AllLoops) :
              (AllLoops[n].id \in Found(message)
                  /\ AllLoops[n].rs.severity = result.computed) =>
                  /\ HasReason(ReasonTag(AllLoops[n].rs))
                  /\ InSeq(AllLoops[n].id, result.patterns_matched)
        /\ (Breached /\ result.computed = HIGH) => HasReason(<<"rate_limit_exceeded">>)
        /\ (has_homoglyphs(message) /\ result.computed = MEDIUM) =>
              HasReason(<<"homoglyph_substitution">>)
        /\ (has_invisible(message) /\ result.computed = HIGH) =>
              HasReason(<<"invisible_characters">>)
        /\ (message.repeated /\ result.computed = HIGH) => HasReason(<<"repetition_detected">>)
        /\ (message.base64 /\ result.computed = MEDIUM) => HasReason(<<"base64_suspicious">>)
        /\ result.severity > SAFE => result.reasons # <<>>

OtherLevel == IF sensitivity = "medium" THEN "high" ELSE "medium"

\* C16: the sensitivity adjustment turns a computed LOW into SAFE under
\* low and a computed SAFE into LOW (reason paranoid_flag) under paranoid
\* when the text has a bare suspicious word; it changes nothing else, and
\* medium and high give the same result.
C16_SensitivityAdjustment ==
    /\ Returned =>
          /\ result.severity =
                IF sensitivity = "low" /\ result.computed = LOW
                THEN SAFE
                ELSE IF sensitivity = "paranoid" /\ result.computed = SAFE /\ message.word
                     THEN LOW
                     ELSE result.computed
          /\ HasReason(<<"paranoid_flag">>) <=>
                (sensitivity = "paranoid" /\ result.computed = SAFE /\ message.word)
    /\ (Analyzed /\ sensitivity \in {"medium", "high"}) =>
          result = Analyze(message, context, Breached, config, owner_ids, OtherLevel)

C16_Witness ==
    /\ Returned
    /\ sensitivity = "high"
    /\ result.computed = LOW
    /\ result.severity = LOW
    /\ result.action = "log"

ValidConfig(cfg) ==
    /\ cfg.sensitivity \in Sensitivities
    /\ \A name \in DOMAIN cfg.actions : cfg.actions[name] \in ActionValues

\* C20: no analyze call runs under a configuration with an unknown
\* sensitivity or an action string that is no Action value.
C20_InvalidConfigRejected == Analyzed => ValidConfig(config)

\* Claims about normalize and the repetition detector

\* The lines of the message longer than the minimum length after trimming.
LongLines ==
    LET lines == split(message)
    IN  {i \in 1..Len(lines) : strip(lines[i]).len > MinLineLength}

DistinctLongLines == {strip(split(message)[i]) : i \in LongLines}

\* C12: the result has repetition_detected exactly when the long lines of
\* the message number more than twice the distinct long lines, and then a
\* severity of HIGH or more.
C12_RepetitionAmongLongLines ==
    Returned =>
        /\ HasReason(<<"repetition_detected">>) <=>
              Cardinality(LongLines) > 2 * Cardinality(DistinctLongLines)
        /\ HasReason(<<"repetition_detected">>) => result.severity >= HIGH

\* C17: normalizing the text normalize returned gives the same text and
\* reports no change.
C17_NormalizeIdempotent ==
    Len(local) = 2 =>
        /\ local[2].input = local[1].text
        /\ local[2].text = local[1].text
        /\ ~local[2].changed

C17_Witness ==
    /\ Len(local) = 2
    /\ local[1].changed
    /\ Occurs("roman_ii", message)
    /\ Occurs("cyrillic_a", message)
    /\ Len(local[1].text) > Len(message)

\* C18: normalize reports a change exactly when a substitution fired and
\* exactly when the text it returns differs from its input; analyze then
\* gives the reason homoglyph_substitution with a severity of MEDIUM or
\* more and a normalized_text, and otherwise neither.
C18_ChangedIffSubstituted ==
    /\ \A k \in 1..Len(local) :
          /\ local[k].changed <=> local[k].fired # << >>
          /\ local[k].changed <=> local[k].text # local[k].input
    /\ Returned =>
          /\ HasReason(<<"homoglyph_substitution">>) <=> normalize(message).changed
          /\ normalize(message).changed => result.severity >= MEDIUM
          /\ result.normalized_text # None <=> normalize(message).changed

C18_Witness ==
    /\ Returned
    /\ Len(local) >= 1
    /\ local[1].changed
    /\ local[1].text = << >>
    /\ HasReason(<<"homoglyph_substitution">>)
    /\ result.normalized_text # None

\* Claims about the state analyze touches

\* C19: an analyze call leaves the configuration, the owner set, the
\* sensitivity and the rate window of every identity but the caller's as
\* they were.
C19_OnlyCallerWindow ==
    [][now' = now =>
          /\ config' = config
          /\ owner_ids' = owner_ids
          /\ sensitivity' = sensitivity
          /\ \A u \in (DOMAIN rate_limits \cup DOMAIN rate_limits')
                        \ {CtxGet(context', "user_id", Unknown)} :
                /\ u \in DOMAIN rate_limits
                /\ u \in DOMAIN rate_limits'
                /\ rate_limits'[u] = rate_limits[u]]_vars

C19_Witness ==
    /\ Returned
    /\ Sender \in DOMAIN rate_limits
    /\ ret.before # rate_limits[Sender]
    /\ \E u \in DOMAIN rate_limits \ {Sender} : rate_limits[u] # << >>

\* Claims about aborts, the rate limit in analyze and the action map

\* C21: no analyze call raises; each returns a DetectionResult.
C21_NeverAborts == Analyzed => ~result.raised

\* C24: an analyze call of a non-owner made when as many accepted analyze
\* calls of the identity as the cap are inside the window has the reason
\* rate_limit_exceeded and a severity of HIGH or more, whatever the
\* message; with fewer inside the window it has not that reason.
C24_CallOverCapFlagged ==
    (Returned /\ ~SenderIsOwner) =>
        /\ InsideCount >= config.rate_limit.max_requests =>
              /\ HasReason(<<"rate_limit_exceeded">>)
              /\ result.severity >= HIGH
        /\ InsideCount < config.rate_limit.max_requests =>
              ~HasReason(<<"rate_limit_exceeded">>)

C24_Witness ==
    /\ Returned
    /\ ~SenderIsOwner
    /\ Found(message) = {}
    /\ config.rate_limit.max_requests = MaxCap
    /\ InsideCount = MaxCap
    /\ Len(PriorAccepted) > InsideCount
    /\ result.reasons = << <<"rate_limit_exceeded">>, <<"group_non_owner">> >>
    /\ result.severity = HIGH

\* C25: for a non-owner outside a group the action is ALLOW for SAFE and
\* otherwise the entry of the configured action map for the final
\* severity; under the default map that is log, warn, block and
\* block_notify, so every HIGH or CRITICAL message is blocked.
C25_ActionFromMap ==
    (Returned /\ ~SenderIsOwner /\ ~InGroup) =>
        /\ result.action =
              IF result.severity = SAFE
              THEN "allow"
              ELSE config.actions[SeverityName(result.severity)]
        /\ config.actions = DefaultActions =>
              /\ result.severity = SAFE <=> result.action = "allow"
              /\ result.severity = LOW <=> result.action = "log"
              /\ result.severity = MEDIUM <=> result.action = "warn"
              /\ result.severity = HIGH <=> result.action = "block"
              /\ result.severity = CRITICAL <=> result.action = "block_notify"

C25_Witness ==
    /\ Returned
    /\ context = [chat_name |-> "dm"]
    /\ config.actions = DefaultActions
    /\ result.severity = HIGH
    /\ HasReason(<<"instruction_override", "en">>)
    /\ result.action = "block"

\* Claims about the windows of the rate limiter

NonDecreasing(w) == \A i, j \in 1..Len(w) : i <= j => w[i] <= w[j]

\* C26: after every call each identity's window holds at most cap
\* timestamps in non-decreasing order, and the window of the identity that
\* called holds only timestamps less than window_seconds before the call.
C26_WindowBounded ==
    LastCallLimited =>
        /\ \A u \in DOMAIN rate_limits :
              /\ Len(rate_limits[u]) <= config.rate_limit.max_requests
              /\ NonDecreasing(rate_limits[u])
        /\ \A i \in 1..Len(rate_limits[LastUser]) :
              /\ rate_limits[LastUser][i] <= ret.now
              /\ ret.now - rate_limits[LastUser][i] < config.rate_limit.window_seconds

C26_Witness ==
    /\ LastCallLimited
    /\ config.rate_limit.max_requests = MaxCap
    /\ Len(rate_limits[LastUser]) = MaxCap
    /\ rate_limits[LastUser][1] < rate_limits[LastUser][MaxCap]
    /\ Len(ret.before) = MaxCap
    /\ ret.before[1] < rate_limits[LastUser][1]
    /\ \E u \in DOMAIN rate_limits \ {LastUser} :
          /\ rate_limits[u] # << >>
          /\ now - rate_limits[u][1] >= config.rate_limit.window_seconds

AcceptedCall(u) == ret.op = "check_rate_limit" /\ ret.user_id = u /\ ~ret.exceeded

\* C27: with a cap of 1 or more a call is refused only while the oldest
\* recorded request of the identity is less than window_seconds old, and
\* an identity that keeps calling while time advances is accepted again
\* and again.
C27_Recovers ==
    /\ [](LastCallLimited /\ config.rate_limit.max_requests >= 1 /\ ret.exceeded =>
            /\ ret.before # << >>
            /\ ret.now - ret.before[1] < config.rate_limit.window_seconds)
    /\ \A u \in RateUsers :
          []<>(config.rate_limit.max_requests < 1 \/ AcceptedCall(u))

\* A call accepted with a full window before it, whose oldest request had
\* expired.
C27_Witness ==
    /\ LastCallLimited
    /\ ~ret.exceeded
    /\ config.rate_limit.max_requests = MaxCap
    /\ Len(ret.before) = MaxCap
    /\ ret.now - ret.before[1] >= config.rate_limit.window_seconds
    /\ ret.now - ret.before[MaxCap] < config.rate_limit.window_seconds
    /\ ret.now = MaxTime

\* Claims about severity and reasons

\* C28: under medium, high and paranoid a result is SAFE exactly when it has
\* no reasons; under low a SAFE result has reasons only when the severity
\* computed before the downgrade was LOW, and a result above SAFE has
\* reasons.
C28_SafeIffNoReasons ==
    Returned =>
        IF sensitivity \in {"medium", "high", "paranoid"}
        THEN result.severity = SAFE <=> result.reasons = << >>
        ELSE /\ (result.severity = SAFE /\ result.reasons # << >>) => result.computed = LOW
             /\ result.reasons = << >> => result.severity = SAFE

C28_Witness ==
    /\ Returned
    /\ sensitivity = "low"
    /\ result.severity = SAFE
    /\ result.computed = LOW
    /\ result.reasons # << >>
    /\ result.action = "allow"
    /\ InGroup /\ ~SenderIsOwner

\* Claims about the HiveFence cache

\* C29: a fetch_latest whose request fails, made after one that succeeded,
\* returns the ids of the last successful fetch, in its order.
C29_FallsBackToLastFetch ==
    (ret.op = "fetch_latest" /\ ret.failed /\ ret.fetched) =>
        Ids(ret.patterns) = Ids(ret.last_ok)

\* Claims about the audit log

Logged == ret.op = "log_detection"

\* The lines log_detection appended in the last call.
LastEntry ==
    IF files.log = None
    THEN << >>
    ELSE SubSeq(files.log, (IF ret.before = None THEN 0 ELSE Len(ret.before)) + 1,
                Len(files.log))

MessageLines(lines) == {i \in 1..Len(lines) : lines[i].kind = "message"}

\* C23: the entry of a call has a message line exactly when
\* logging.include_message is set and true; the text of that line is at
\* most 100 characters of the message and holds no character that is read
\* back as a newline; with logging.enabled false the log is left as it was.
C23_MessageOnlyOnRequest ==
    Logged =>
        /\ LoggingGet(config, "enabled", TRUE) =>
              /\ MessageLines(LastEntry) # {} <=>
                    ("include_message" \in DOMAIN config.logging
                        /\ config.logging.include_message)
              /\ \A i \in MessageLines(LastEntry) :
                    /\ Len(LastEntry[i].text) <= MessageLimit
                    /\ \A j \in 1..Len(LastEntry[i].text) :
                          /\ LastEntry[i].text[j] \in {message[j], " "}
                          /\ Translate(LastEntry[i].text[j]) # LF
        /\ ~LoggingGet(config, "enabled", TRUE) => files.log = ret.before

Expected ==
    [date |-> date_str(ret.now), severity |-> SeverityName(result.severity),
     user_id |-> str(CtxGet(context, "user_id", Unknown)).s,
     chat |-> CtxGet(context, "chat_name", "unknown"),
     action |-> result.action, fingerprint |-> result.fingerprint,
     patterns |-> [i \in 1..Len(result.reasons) |-> <<result.reasons[i]>>]]

\* C30: each log_detection call adds one entry to what parse_log returns,
\* after the entries it returned before, with the date, severity name,
\* user_id, chat, action and fingerprint of the call and its reasons as
\* the patterns list.
C30_LogRoundTrip ==
    (Logged /\ LoggingGet(config, "enabled", TRUE)) =>
        LET old == parse_log(ret.before)
            new == parse_log(files.log)
        IN  /\ Len(new) = Len(old) + 1
            /\ SubSeq(new, 1, Len(old)) = old
            /\ \A f \in DOMAIN Expected : new[Len(new)][f] = Expected[f]

DateHeaders(content, date) == {i \in 1..Len(content) : content[i] = [kind |-> "date", date |-> date]}

\* The detail lines of a record follow its header line, in the order written.
RecordAt(content, i) ==
    LET details == IF i + 2 <= Len(content) /\ content[i + 2].kind = "message" THEN 4 ELSE 3
    IN  /\ i + details <= Len(content)
        /\ content[i + 1].kind = "patterns"
        /\ content[i + details - 1].kind = "action"
        /\ content[i + details].kind = "fingerprint"

\* C22: after a log_detection call has appended, also when other writers
\* ran between its header check and its append, the log holds at most one
\* header for every day and exactly one for the day of the call, and every
\* record's lines stand together.
C22_OneHeaderPerDay ==
    (Logged /\ files.log # None) =>
        /\ \A d \in 0..date_str(MaxTime) : Cardinality(DateHeaders(files.log, d)) <= 1
        /\ Cardinality(DateHeaders(files.log, date_str(ret.now))) = 1
        /\ \A i \in 1..Len(files.log) :
              files.log[i].kind = "entry" => RecordAt(files.log, i)

====
